---- MODULE Spec2Model ----
(***************************************************************************)
(* PyCabArc.py: the cabinet writer (Cabinet / IOStream / CFHEADER /        *)
(* CFFOLDER / CFFILE / CFDATA), modelled as a state machine.               *)
(*                                                                         *)
(* Byte strings are modelled by what the writer does with them:            *)
(*   - an item name is its length (CFFILE.size is all the writer uses);    *)
(*   - the block buffer p.buf is a sequence of segments [f, a, n]: n bytes *)
(*     of source file f starting at its offset a;                          *)
(*   - the payload of a CFDATA is [src, by, lo, hi]: bytes lo..hi-1 of the  *)
(*     string obtained from the uncompressed block src by the compressor   *)
(*     "by", so that slicing (s[:k], s[k:]) is arithmetic on lo and hi.    *)
(* A Python exception leaves the object as the statements executed so far  *)
(* left it and is recorded in the field err; every later statement of the  *)
(* handler is skipped.                                                      *)
(***************************************************************************)
EXTENDS Integers, Sequences, FiniteSets, TLC

\* ------------------------------------------------------------------ bounds
MaxOps == 6                 \* API calls per run (constructor excluded)

\* ------------------------------------------------------- program constants
BlockSize == 32768          \* IOStream._read(n=32768), IOStream._write
MinLimit == 50000           \* Cabinet.__init__: if limit < 50000
MSZIPMax == 32780           \* MSZIP.compress: if len(buf) > 32780
MaxNameLen == 255           \* Cabinet._additem: if len(f.Name) > 255
CFHEADERSize == 36          \* CFHEADER.size1: x = 36
CFFOLDERSize == 8           \* CFFOLDER.size: x = 8
CFFILESize == 16            \* CFFILE.size: 16+len(p.Name)+1
CFDATASize == 8             \* CFDATA.size: 8 + p.cbData
USHRT == 65535              \* struct 'H': 0 <= number <= USHRT_MAX
StoredPrefix == 7           \* '\x43\x4B\x01\x00\x80\xFF\x7F'

\* ------------------------------------------------------------------ inputs
Limits == {MinLimit - 1, MinLimit}
Compressions == {0, 6}            \* Cabinet(..., compression): store, MSZIP level 6
FolderTypes == {0, 6}             \* AddFolder(type)
SetIDs == {1, 2}                  \* draws of random.randint(1,65536)
DestNameLens == {6}               \* 'a#.cab'
\* Source file sizes: one byte, one block, three cabinet units, and 49372,
\* which leaves volume_size + 8 = limit in a unit of MinLimit bytes after
\* AddFolder and a second file (header 44, a folder 8, a file entry 272,
\* a record 8 + its payload)
FileSizes == {1, BlockSize, 49372, 100000}
NameLens == {MaxNameLen}
DeflateModes == {"shrink", "grow"}

\* ----------------------------------------------------------------- helpers
RECURSIVE SumTo(_, _, _)
SumTo(F(_), q, i) == IF i = 0 THEN 0 ELSE F(q[i]) + SumTo(F, q, i - 1)
SumSeq(F(_), q) == SumTo(F, q, Len(q))

\* v bound to a name for the statements that follow it: rest(v)
Bind(v, rest(_)) == rest(v)

Last(q) == q[Len(q)]
SetLast(q, v) == [q EXCEPT ![Len(q)] = v]
Min(a, b) == IF a < b THEN a ELSE b

\* flags & bit, flags | bit, flags ^ bit for a single bit
HasBit(flags, bit) == (flags \div bit) % 2 = 1
OrBit(flags, bit) == IF HasBit(flags, bit) THEN flags ELSE flags + bit
XorBit(flags, bit) == IF HasBit(flags, bit) THEN flags - bit ELSE flags + bit

SegLen(g) == g.n
BufLen(b) == SumSeq(SegLen, b)

\* ------------------------------------------------------------------ CFDATA
CFDATA(data, udata, cdata) == [data |-> data, cbData |-> cdata, cbUncomp |-> udata]
CFDATA_size(x) == CFDATASize + x.cbData
NoData == [src |-> <<>>, by |-> "none", lo |-> 0, hi |-> 0, hist |-> 0]

\* ------------------------------------------------------------------ CFFILE
CFFILE(id, itemname, size, readable) ==
    [id |-> id, Name |-> itemname, cbFile |-> 0, uoffFolderStart |-> 0,
     iFolder |-> 0, path |-> [size |-> size, readable |-> readable]]
CFFILE_size(f) == CFFILESize + f.Name + 1

\* ---------------------------------------------------------------- CFFOLDER
CFFOLDER == [coffCabStart |-> 0, cCFData |-> 0, typeCompress |-> 0,
             Files |-> <<>>, Size |-> 0, _coffCabStart |-> 0]
CFFOLDER_size(o) == CFFOLDERSize + SumSeq(CFFILE_size, o.Files)

\* ---------------------------------------------------------------- CFHEADER
CFHEADER(rnd) ==
    [cbCabinet |-> 0, coffFiles |-> 0, cFolders |-> 0, cFiles |-> 0, flags |-> 0,
     setID |-> rnd, iCabinet |-> 0, cbCFHeader |-> 0,
     szCabinetPrev |-> 1, szDiskPrev |-> 1, szCabinetNext |-> 1, szDiskNext |-> 1,
     Folders |-> <<>>]
CFHEADER_size1(h) ==
    CFHEADERSize
    + (IF HasBit(h.flags, 1) THEN h.szCabinetPrev + h.szDiskPrev ELSE 0)
    + (IF HasBit(h.flags, 2) THEN h.szCabinetNext + h.szDiskNext ELSE 0)
    + (IF HasBit(h.flags, 4) THEN 4 + h.cbCFHeader ELSE 0)
CFHEADER_size2(h) == SumSeq(CFFOLDER_size, h.Folders)
CFHEADER_size(h) == CFHEADER_size1(h) + CFHEADER_size2(h)

\* ----------------------------------------------------------- compressors
\* Length of the raw DEFLATE output for an n-byte block (Z_SYNC_FLUSH plus the
\* Z_FINISH of the clone): not computable here, so it is drawn by the caller.
DeflateLen(n, m) == IF m = "grow" THEN n + 11 ELSE n \div 8 + 9

\* MSZIP.compress on block b when zlib yields d bytes: 'CK' + deflate output,
\* or the fixed 7-byte stored-block prefix + s when that exceeds 32780
MSZIP_pack(b, d) ==
    IF 2 + d > MSZIPMax
    THEN [src |-> b, by |-> "MSZIP-stored", lo |-> 0, hi |-> StoredPrefix + BufLen(b)]
    ELSE [src |-> b, by |-> "MSZIP", lo |-> 0, hi |-> 2 + d]

MSZIP_compress(b, m) == MSZIP_pack(b, DeflateLen(BufLen(b), m))

\* LZX.compress: the DLL yields at most SIZE_T bytes
LZX_compress(b, m) ==
    LET n == BufLen(b)
    IN [src |-> b, by |-> "LZX", lo |-> 0,
        hi |-> IF n = 0 THEN 0 ELSE IF m = "grow" THEN n + 6144 ELSE n \div 8 + 1]

CPR_compress(cpr, b, m) ==
    IF cpr.kind = "MSZIP" THEN MSZIP_compress(b, m) ELSE LZX_compress(b, m)

\* ---------------------------------------------------------------- IOStream
NoFin == [open |-> FALSE, id |-> 0, pos |-> 0, size |-> 0]
NoFile == CFFILE(0, 0, 0, TRUE)

IOStream_init(compression) ==
    IF 0 < compression /\ compression < 10
    THEN [kind |-> "MSZIP", level |-> compression, hist |-> 0]
    ELSE IF compression % 256 = 3
    THEN [kind |-> "LZX", level |-> compression \div 256, hist |-> 0]
    ELSE [kind |-> "unset", level |-> 0, hist |-> 0]

\* ----------------------------------------------------------------- Cabinet
\* The object graph after Cabinet.__init__(name, 'w', limit, compression);
\* the fields below "IO" are those of the IOStream p.IO.
\* Cabinet.__init__ refusing limit <= 50000
Cabinet_init_LE(name, lim, compression) ==
    [err |-> IF lim <= MinLimit THEN "CabArcException" ELSE "",
     ret |-> 0,
     Index |-> 0, destname |-> name, label |-> 0, reserved |-> 0,
     limit |-> lim, ch |-> <<>>, idict |-> {}, IO |-> TRUE,
     CPR |-> IOStream_init(compression),
     fin |-> NoFin, fout |-> <<>>, _files |-> <<>>, _file |-> NoFile,
     buf |-> <<>>, ulen |-> 0, clen |-> 0, opened |-> <<>>, _flushing |-> FALSE,
     c1 |-> 0, c2 |-> 0, c3 |-> 0, c4 |-> 0,
     disk |-> <<>>, uid |-> 0, splits |-> <<>>]

Cabinet_init(name, lim, compression) ==
    [err |-> IF lim < MinLimit THEN "CabArcException" ELSE "",
     ret |-> 0,
     Index |-> 0, destname |-> name, label |-> 0, reserved |-> 0,
     limit |-> lim, ch |-> <<>>, idict |-> {}, IO |-> TRUE,
     CPR |-> IOStream_init(compression),
     fin |-> NoFin, fout |-> <<>>, _files |-> <<>>, _file |-> NoFile,
     buf |-> <<>>, ulen |-> 0, clen |-> 0, opened |-> <<>>, _flushing |-> FALSE,
     c1 |-> 0, c2 |-> 0, c3 |-> 0, c4 |-> 0,
     disk |-> <<>>, uid |-> 0, splits |-> <<>>]

Raise(s, e) == [s EXCEPT !.err = e]

\* Cabinet._name on a pattern holding one '#': the length of the result
Digits(i) == IF i < 10 THEN 1 ELSE IF i < 100 THEN 2 ELSE 3
_name(patlen, i) == patlen - 1 + Digits(i)

CurHeader(s) == Last(s.ch)
CurFolder(s) == Last(CurHeader(s).Folders)
SetCurHeader(s, h) == [s EXCEPT !.ch = SetLast(s.ch, h)]
SetCurFolder(s, f) ==
    SetCurHeader(s, [CurHeader(s) EXCEPT !.Folders = SetLast(CurHeader(s).Folders, f)])

fout_tell(s) == SumSeq(CFDATA_size, s.fout)

\* AddHeader that keeps the new header's own random setID
AddHeader_NewSetID(s, rnd) ==
    Bind(Len(s.ch) + 1, LAMBDA n :
    Bind(s.Index + 1, LAMBDA idx :
    Bind(CFHEADER(rnd), LAMBDA P0 :
    Bind(IF s.reserved # 0
         THEN [P0 EXCEPT !.flags = OrBit(P0.flags, 4), !.cbCFHeader = s.reserved]
         ELSE P0, LAMBDA P1 :
    Bind(IF s.limit # 0
         THEN [P1 EXCEPT !.cbCabinet = s.limit,
                         !.flags = OrBit(P1.flags, 2),
                         !.szCabinetNext = _name(s.destname, idx + 1) + 1,
                         !.szDiskNext = IF s.label # 0
                                        THEN _name(s.label, idx + 1) + 1
                                        ELSE P1.szDiskNext]
         ELSE P1, LAMBDA P2 :
    Bind(IF s.limit # 0 /\ n > 1
         THEN [P2 EXCEPT !.flags = OrBit(P2.flags, 1),
                         !.iCabinet = Last(s.ch).iCabinet + 1,
                         !.szCabinetPrev = _name(s.destname, idx - 1) + 1,
                         !.szDiskPrev = IF s.label # 0
                                        THEN _name(s.label, idx - 1) + 1
                                        ELSE P2.szDiskPrev]
         ELSE P2, LAMBDA P3 :
    [s EXCEPT !.Index = idx, !.ch = Append(s.ch, P3)]))))))

AddHeader(s, rnd) ==
    Bind(Len(s.ch) + 1, LAMBDA n :
    Bind(s.Index + 1, LAMBDA idx :
    Bind(CFHEADER(rnd), LAMBDA P0 :
    Bind(IF s.reserved # 0
         THEN [P0 EXCEPT !.flags = OrBit(P0.flags, 4), !.cbCFHeader = s.reserved]
         ELSE P0, LAMBDA P1 :
    Bind(IF s.limit # 0
         THEN [P1 EXCEPT !.cbCabinet = s.limit,
                         !.flags = OrBit(P1.flags, 2),
                         !.szCabinetNext = _name(s.destname, idx + 1) + 1,
                         !.szDiskNext = IF s.label # 0
                                        THEN _name(s.label, idx + 1) + 1
                                        ELSE P1.szDiskNext]
         ELSE P1, LAMBDA P2 :
    Bind(IF s.limit # 0 /\ n > 1
         THEN [P2 EXCEPT !.flags = OrBit(P2.flags, 1),
                         !.setID = Last(s.ch).setID,
                         !.iCabinet = Last(s.ch).iCabinet + 1,
                         !.szCabinetPrev = _name(s.destname, idx - 1) + 1,
                         !.szDiskPrev = IF s.label # 0
                                        THEN _name(s.label, idx - 1) + 1
                                        ELSE P2.szDiskPrev]
         ELSE P2, LAMBDA P3 :
    [s EXCEPT !.Index = idx, !.ch = Append(s.ch, P3)]))))))

_addfolder(s, type) ==
    LET f == [CFFOLDER EXCEPT !._coffCabStart = fout_tell(s), !.typeCompress = type]
        h == CurHeader(s)
    IN SetCurHeader(s, [h EXCEPT !.Folders = Append(h.Folders, f),
                                 !.cFolders = h.cFolders + 1])

\* _open that does not advance the folder's accumulated size
_open_SizeKept(s) ==
    Bind([s EXCEPT !.fin = NoFin], LAMBDA s1 :
    Bind(IF s1._flushing
         THEN _addfolder([s1 EXCEPT !._flushing = FALSE], CurFolder(s1).typeCompress)
         ELSE s1, LAMBDA s2 :
    IF s2._files = <<>> THEN [s2 EXCEPT !.ret = 0]
    ELSE Bind(Head(s2._files), LAMBDA f0 :
         Bind([s2 EXCEPT !._files = Tail(s2._files), !._file = f0], LAMBDA s3 :
         IF ~f0.path.readable THEN [s3 EXCEPT !.ret = 0]
         ELSE Bind(CurHeader(s3).Folders, LAMBDA P :
              Bind([f0 EXCEPT !.cbFile = f0.path.size,
                              !.iFolder = Len(P) - 1,
                              !.uoffFolderStart = Last(P).Size], LAMBDA f1 :
              Bind([Last(P) EXCEPT !.Files = Append(Last(P).Files, f1)], LAMBDA fo :
              [SetCurFolder(s3, fo) EXCEPT
                  !._file = f1,
                  !.fin = [open |-> TRUE, id |-> f1.id, pos |-> 0,
                           size |-> f1.path.size],
                  !.c3 = s3.c3 + 1,
                  !.ret = 1])))))))

\* _open that takes a file into the folder without trying to open it
_open_Unchecked(s) ==
    Bind([s EXCEPT !.fin = NoFin], LAMBDA s1 :
    Bind(IF s1._flushing
         THEN _addfolder([s1 EXCEPT !._flushing = FALSE], CurFolder(s1).typeCompress)
         ELSE s1, LAMBDA s2 :
    IF s2._files = <<>> THEN [s2 EXCEPT !.ret = 0]
    ELSE Bind(Head(s2._files), LAMBDA f0 :
         Bind([s2 EXCEPT !._files = Tail(s2._files), !._file = f0], LAMBDA s3 :
         Bind(CurHeader(s3).Folders, LAMBDA P :
         Bind([f0 EXCEPT !.cbFile = f0.path.size,
                         !.iFolder = Len(P) - 1,
                         !.uoffFolderStart = Last(P).Size], LAMBDA f1 :
         Bind([Last(P) EXCEPT !.Size = Last(P).Size + f1.cbFile,
                              !.Files = Append(Last(P).Files, f1)], LAMBDA fo :
         [SetCurFolder(s3, fo) EXCEPT
             !._file = f1,
             !.fin = [open |-> TRUE, id |-> f1.id, pos |-> 0,
                      size |-> f1.path.size],
             !.c3 = s3.c3 + 1,
             !.ret = 1])))))))

\* _open that leaves the pending close of the folder aside
_open_SameFolder(s) ==
    Bind([s EXCEPT !.fin = NoFin], LAMBDA s2 :
    IF s2._files = <<>> THEN [s2 EXCEPT !.ret = 0]
    ELSE Bind(Head(s2._files), LAMBDA f0 :
         Bind([s2 EXCEPT !._files = Tail(s2._files), !._file = f0], LAMBDA s3 :
         IF ~f0.path.readable THEN [s3 EXCEPT !.ret = 0]
         ELSE Bind(CurHeader(s3).Folders, LAMBDA P :
              Bind([f0 EXCEPT !.cbFile = f0.path.size,
                              !.iFolder = Len(P) - 1,
                              !.uoffFolderStart = Last(P).Size], LAMBDA f1 :
              Bind([Last(P) EXCEPT !.Size = Last(P).Size + f1.cbFile,
                                   !.Files = Append(Last(P).Files, f1)], LAMBDA fo :
              [SetCurFolder(s3, fo) EXCEPT
                  !._file = f1,
                  !.fin = [open |-> TRUE, id |-> f1.id, pos |-> 0,
                           size |-> f1.path.size],
                  !.c3 = s3.c3 + 1,
                  !.ret = 1]))))))

_open(s) ==
    Bind([s EXCEPT !.fin = NoFin], LAMBDA s1 :
    Bind(IF s1._flushing
         THEN _addfolder([s1 EXCEPT !._flushing = FALSE], CurFolder(s1).typeCompress)
         ELSE s1, LAMBDA s2 :
    IF s2._files = <<>> THEN [s2 EXCEPT !.ret = 0]
    ELSE Bind(Head(s2._files), LAMBDA f0 :
         Bind([s2 EXCEPT !._files = Tail(s2._files), !._file = f0], LAMBDA s3 :
         IF ~f0.path.readable THEN [s3 EXCEPT !.ret = 0]
         ELSE Bind(CurHeader(s3).Folders, LAMBDA P :
              Bind([f0 EXCEPT !.cbFile = f0.path.size,
                              !.iFolder = Len(P) - 1,
                              !.uoffFolderStart = Last(P).Size], LAMBDA f1 :
              Bind([Last(P) EXCEPT !.Size = Last(P).Size + f1.cbFile,
                                   !.Files = Append(Last(P).Files, f1)], LAMBDA fo :
              [SetCurFolder(s3, fo) EXCEPT
                  !._file = f1,
                  !.fin = [open |-> TRUE, id |-> f1.id, pos |-> 0,
                           size |-> f1.path.size],
                  !.c3 = s3.c3 + 1,
                  !.ret = 1])))))))

_cabsize(s) == fout_tell(s) + CFHEADER_size(CurHeader(s))

_cabisfull(s) == _cabsize(s) >= s.limit

\* file.read that returns the rest of the file whatever n is
file_read_All(fin, n) == fin.size - fin.pos

\* file.read(n): n bytes, fewer at the end of the file, all of it when n < 0
file_read(fin, n) == IF n < 0 THEN fin.size - fin.pos ELSE Min(n, fin.size - fin.pos)

\* One pass through the body of IOStream._read(n): the object as the pass
\* leaves it, and whether it ends in `return p._read(n-x)', with that n-x
_read_pass(s, n) ==
    Bind(IF ~s.fin.open THEN _open(s) ELSE [s EXCEPT !.ret = 1], LAMBDA s1 :
    IF s1.ret = 0 THEN [st |-> s1, again |-> FALSE, n |-> 0]
    ELSE Bind(n - BufLen(s1.buf), LAMBDA n1 :
         Bind(file_read(s1.fin, n1), LAMBDA x :
         IF x = 0 THEN [st |-> [s1 EXCEPT !.fin = NoFin, !.ret = 0], again |-> FALSE, n |-> 0]
         ELSE Bind([s1 EXCEPT
                      !.buf = Append(s1.buf, [f |-> s1.fin.id, a |-> s1.fin.pos, n |-> x]),
                      !.c1 = s1.c1 + x,
                      !.fin.pos = s1.fin.pos + x], LAMBDA s2 :
              IF BufLen(s2.buf) < BlockSize
              THEN Bind([s2 EXCEPT !.fin = NoFin], LAMBDA s3 :
                   IF _cabisfull(s3) \/ s3._flushing
                   THEN [st |-> [s3 EXCEPT !.ret = 0], again |-> FALSE, n |-> 0]
                   ELSE [st |-> s3, again |-> TRUE, n |-> n1 - x])
              ELSE [st |-> [s2 EXCEPT !.ret = 1], again |-> FALSE, n |-> 0]))))

RECURSIVE _read(_, _)
_read(s, n) ==
    Bind(_read_pass(s, n), LAMBDA r : IF r.again THEN _read(r.st, r.n) ELSE r.st)

\* s[a:b] on a payload
Slice(d, a, b) == [d EXCEPT !.lo = Min(d.hi, d.lo + a), !.hi = Min(d.hi, d.lo + b)]

\* CFDATA.Write(fp, 1) on the scratch file p.fout[-1]: an empty record is
\* discarded; struct.pack('<L2H') refuses a length outside 0..65535
CFDATA_Write(s, x) ==
    IF x.cbData = 0 THEN s
    ELSE IF x.cbData < 0 \/ x.cbData > USHRT \/ x.cbUncomp < 0 \/ x.cbUncomp > USHRT
    THEN Raise(s, "struct.error")
    ELSE [s EXCEPT !.fout = Append(s.fout,
                       [cbData |-> x.cbData, cbUncomp |-> x.cbUncomp,
                        data |-> Slice(x.data, 0, x.cbData),
                        fold |-> Len(CurHeader(s).Folders)])]

\* IOStream._filter.  CPR.hist counts the blocks the compressor object has
\* taken since it was created (CPR.flush makes a new one); a compressed
\* payload notes the history it was compressed with.
_filter(s, flush, m) ==
    Bind(BufLen(s.buf), LAMBDA n :
    Bind([s EXCEPT !.clen = n, !.ulen = n], LAMBDA s1 :
    IF CurFolder(s).typeCompress # 0 /\ n # 0
    THEN IF s.CPR.kind = "unset"
         THEN [st |-> Raise(s1, "AttributeError"), data |-> NoData]
         ELSE Bind(CPR_compress(s.CPR, s.buf, m), LAMBDA d :
              Bind(IF flush THEN [s.CPR EXCEPT !.hist = 0]
                            ELSE [s.CPR EXCEPT !.hist = s.CPR.hist + 1], LAMBDA c :
              [st |-> [s1 EXCEPT !.CPR = c, !.clen = d.hi, !.c2 = s.c2 + d.hi],
               data |-> [src |-> d.src, by |-> d.by, lo |-> d.lo, hi |-> d.hi,
                         hist |-> s.CPR.hist]]))
    ELSE [st |-> [s1 EXCEPT !.c2 = s.c2 + n],
          data |-> [src |-> s.buf, by |-> "none", lo |-> 0, hi |-> n, hist |-> 0]]))

\* CFFOLDER.Write: an MSZIP level becomes the flag value 1
CFFOLDER_Write(o) ==
    IF 1 < o.typeCompress /\ o.typeCompress < 10 THEN [o EXCEPT !.typeCompress = 1] ELSE o

FileCount(o) == Len(o.Files)

\* CFHEADER.Write (both passes): the header as it is left, with the counts,
\* coffFiles and every folder's coffCabStart set
CFHEADER_Write(h) ==
    LET sz == CFHEADER_size(h)
    IN [h EXCEPT !.cFiles = SumSeq(FileCount, h.Folders),
                 !.cFolders = Len(h.Folders),
                 !.coffFiles = CFHEADER_size1(h) + CFFOLDERSize * Len(h.Folders),
                 !.Folders = [i \in 1..Len(h.Folders) |->
                                [CFFOLDER_Write(h.Folders[i]) EXCEPT
                                    !.coffCabStart = h.Folders[i]._coffCabStart + sz]]]

\* struct.pack of the header's 'H' fields
CFHEADER_packs(h) ==
    /\ h.cFolders <= USHRT /\ h.cFiles <= USHRT /\ h.flags <= USHRT
    /\ h.setID <= USHRT /\ h.iCabinet <= USHRT

CONTINUED_FROM_PREV == 65533      \* 0xFFFD
CONTINUED_TO_NEXT == 65534        \* 0xFFFE
CONTINUED_PREV_AND_NEXT == 65535  \* 0xFFFF

\* the test of IOStream._copycab on a CFFILE x of the last folder X
InLastBlock(X, x) ==
    \/ x.uoffFolderStart >= (X.cCFData - 1) * BlockSize
    \/ x.uoffFolderStart + x.cbFile >= (X.cCFData - 1) * BlockSize

_copycab_mark(x, last) ==
    IF x.iFolder \in {CONTINUED_FROM_PREV, CONTINUED_PREV_AND_NEXT}
    THEN [x EXCEPT !.iFolder = IF last THEN CONTINUED_FROM_PREV ELSE CONTINUED_PREV_AND_NEXT]
    ELSE IF ~last THEN [x EXCEPT !.iFolder = CONTINUED_TO_NEXT] ELSE x

_copycab_restore(x) ==
    IF x.iFolder \in {CONTINUED_TO_NEXT, CONTINUED_PREV_AND_NEXT}
    THEN [x EXCEPT !.iFolder = CONTINUED_FROM_PREV] ELSE x

_copycab(s, last) ==
    Bind(CurFolder(s), LAMBDA X :
    Bind([i \in 1..Len(X.Files) |->
            IF InLastBlock(X, X.Files[i]) THEN _copycab_mark(X.Files[i], last)
            ELSE X.Files[i]], LAMBDA Fs :
    Bind(s.opened \o SelectSeq(Fs, LAMBDA x : InLastBlock(X, x)), LAMBDA opn :
    Bind(CFHEADER_Write(CurHeader(SetCurFolder(s, [X EXCEPT !.Files = Fs]))), LAMBDA h :
    Bind([SetCurHeader(s, h) EXCEPT !.opened = opn], LAMBDA s2 :
    Bind([name |-> s.Index, header |-> h, data |-> s.fout,
          bytes |-> CFHEADER_size(h) + fout_tell(s)], LAMBDA vol :
    Bind([i \in 1..Len(Fs) |->
            IF InLastBlock(X, Fs[i]) THEN _copycab_restore(Fs[i]) ELSE Fs[i]], LAMBDA Fr :
    IF ~CFHEADER_packs(h) THEN Raise(s2, "struct.error")
    ELSE [SetCurFolder(s2, [CurFolder(s2) EXCEPT !.Files = Fr]) EXCEPT
             !.opened = [i \in 1..Len(opn) |-> _copycab_restore(opn[i])],
             !.disk = Append(s.disk, vol),
             !.fout = <<>>,
             !.c4 = s.c4 + 1])))))))

\* cCFData += 1 on the last folder of the last header
BumpCFData(s) == SetCurFolder(s, [CurFolder(s) EXCEPT !.cCFData = CurFolder(s).cCFData + 1])

\* the split branch of IOStream._write: x does not fit in the cabinet unit
_write_split(s, d, rnd) ==
    Bind(CFDATA(d, 0, s.limit - _cabsize(s) - CFDATASize), LAMBDA head :
    Bind([s EXCEPT !.splits = Append(s.splits,
             [vol |-> s.Index, cabsize |-> _cabsize(s), ulen |-> s.ulen,
              clen |-> s.clen, cbData |-> head.cbData, src |-> d.src])], LAMBDA s0 :
    Bind(CFDATA_Write(s0, head), LAMBDA s1 :
    Bind(IF s1.err # "" THEN s1 ELSE _copycab(s1, FALSE), LAMBDA s2 :
    IF s2.err # "" THEN s2
    ELSE Bind(CFDATA(Slice(d, head.cbData, d.hi - d.lo), s.ulen, s.clen - head.cbData),
              LAMBDA tail :
         Bind(CurFolder(s2).typeCompress, LAMBDA t :
         Bind(BumpCFData(_addfolder(AddHeader(s2, rnd), t)), LAMBDA s4 :
         Bind(SetCurFolder(s4, [CurFolder(s4) EXCEPT
                                   !.Files = CurFolder(s4).Files \o s4.opened]), LAMBDA s5 :
         Bind(CFDATA_Write(s5, tail), LAMBDA s6 :
         IF s6.err # "" THEN s6
         ELSE [s6 EXCEPT !.opened = <<>>, !._flushing = TRUE, !.ret = 0])))))))))

\* _write that emits the buffer however little it holds
_write_Early(s, end, m, rnd) ==
    Bind(_filter(s, end, m), LAMBDA r :
    IF r.st.err # "" THEN r.st
    ELSE Bind(BumpCFData([r.st EXCEPT !.buf = <<>>]), LAMBDA s1 :
         Bind(CFDATA(r.data, s1.ulen, s1.clen), LAMBDA x :
         IF _cabsize(s1) + CFDATA_size(x) < s1.limit
         THEN [CFDATA_Write(s1, x) EXCEPT !.ret = 1]
         ELSE _write_split(s1, r.data, rnd))))

_write(s, end, m, rnd) ==
    IF ~end /\ BufLen(s.buf) < BlockSize THEN [s EXCEPT !.ret = 0]
    ELSE Bind(_filter(s, end, m), LAMBDA r :
         IF r.st.err # "" THEN r.st
         ELSE Bind(BumpCFData([r.st EXCEPT !.buf = <<>>]), LAMBDA s1 :
              Bind(CFDATA(r.data, s1.ulen, s1.clen), LAMBDA x :
              IF _cabsize(s1) + CFDATA_size(x) < s1.limit
              THEN [CFDATA_Write(s1, x) EXCEPT !.ret = 1]
              ELSE _write_split(s1, r.data, rnd))))

\* push that queues the item twice
push_Twice(s, item) == [s EXCEPT !._files = s._files \o <<item, item>>]

push(s, item) == [s EXCEPT !._files = Append(s._files, item)]

\* One turn of IOStream.flush: p._read() and, when it returns true, the
\* p._write(end) of the loop, after which the loop goes on; when it returns
\* false, the p._write(p._flushing | end) that follows the loop
flush_pass(s, end, m, rnd) ==
    Bind(_read(s, BlockSize), LAMBDA s1 :
    IF s1.ret # 0 THEN [st |-> _write(s1, end, m, rnd), again |-> TRUE]
    ELSE [st |-> _write(s1, s1._flushing \/ end, m, rnd), again |-> FALSE])

RECURSIVE flush(_, _, _, _)
flush(s, end, m, rnd) ==
    Bind(flush_pass(s, end, m, rnd), LAMBDA r :
    IF r.again /\ r.st.err = "" THEN flush(r.st, end, m, rnd) ELSE r.st)

\* ------------------------------------------------------ Cabinet: the API
\* _additem without the test for a closed Cabinet
_additem_OnClosed(s, itemname, pathname, m, rnd) ==
    IF s.ch = <<>> THEN Raise(s, "CabArcException")
    ELSE IF CurHeader(s).Folders = <<>> THEN Raise(s, "CabArcException")
    ELSE IF itemname > MaxNameLen THEN s
    ELSE Bind(CFFILE(s.uid + 1, itemname, pathname.size, pathname.readable), LAMBDA f :
         flush(push([s EXCEPT !.uid = s.uid + 1, !.idict = s.idict \cup {f.id}], f),
               FALSE, m, rnd))

\* _additem that queues the item whatever the length of its name
_additem_AnyName(s, itemname, pathname, m, rnd) ==
    IF s.ch = <<>> THEN Raise(s, "CabArcException")
    ELSE IF CurHeader(s).Folders = <<>> THEN Raise(s, "CabArcException")
    ELSE IF ~s.IO THEN Raise(s, "CabArcException")
    ELSE Bind(CFFILE(s.uid + 1, itemname, pathname.size, pathname.readable), LAMBDA f :
         flush(push([s EXCEPT !.uid = s.uid + 1, !.idict = s.idict \cup {f.id}], f),
               FALSE, m, rnd))

\* _additem from the new CFFILE to IO.push(cf)
_additem_push(s, itemname, pathname) ==
    Bind(CFFILE(s.uid + 1, itemname, pathname.size, pathname.readable), LAMBDA f :
    push([s EXCEPT !.uid = s.uid + 1, !.idict = s.idict \cup {f.id}], f))

_additem(s, itemname, pathname, m, rnd) ==
    IF s.ch = <<>> THEN Raise(s, "CabArcException")
    ELSE IF CurHeader(s).Folders = <<>> THEN Raise(s, "CabArcException")
    ELSE IF ~s.IO THEN Raise(s, "CabArcException")
    ELSE IF itemname > MaxNameLen THEN s
    ELSE flush(_additem_push(s, itemname, pathname), FALSE, m, rnd)

AddFolder(s, type, m, rnd) ==
    IF s.ch = <<>> THEN Raise(s, "CabArcException")
    ELSE IF ~s.IO THEN Raise(s, "AttributeError")
    ELSE Bind(IF CurHeader(s).Folders # <<>> THEN flush(s, TRUE, m, rnd) ELSE s, LAMBDA s1 :
         IF s1.err # "" THEN s1 ELSE _addfolder(s1, type))

Add(s, itemname, pathname, m, rnd) == _additem(s, itemname, pathname, m, rnd)

\* Flush that leaves the has-next flag of the last header
Flush_KeepsNext(s, m, rnd) ==
    IF s.ch = <<>> THEN Raise(s, "CabArcException")
    ELSE IF CurHeader(s).Folders = <<>> THEN Raise(s, "CabArcException")
    ELSE IF ~s.IO THEN Raise(s, "AttributeError")
    ELSE Bind(flush(s, TRUE, m, rnd), LAMBDA s1 :
         IF s1.err # "" THEN s1
         ELSE Bind(CurHeader(s1), LAMBDA h0 :
              Bind(h0, LAMBDA h1 :
              Bind([h1 EXCEPT !.cbCabinet = fout_tell(s1) + CFHEADER_size(h1)], LAMBDA h2 :
              _copycab(SetCurHeader(s1, h2), TRUE)))))

\* Flush after IO.flush(1): the last header is completed and the unit closed
Flush_close(s1) ==
    Bind(CurHeader(s1), LAMBDA h0 :
    Bind([h0 EXCEPT !.flags = XorBit(h0.flags, 2)], LAMBDA h1 :
    Bind([h1 EXCEPT !.cbCabinet = fout_tell(s1) + CFHEADER_size(h1)], LAMBDA h2 :
    _copycab(SetCurHeader(s1, h2), TRUE))))

Flush(s, m, rnd) ==
    IF s.ch = <<>> THEN Raise(s, "CabArcException")
    ELSE IF CurHeader(s).Folders = <<>> THEN Raise(s, "CabArcException")
    ELSE IF ~s.IO THEN Raise(s, "AttributeError")
    ELSE Bind(flush(s, TRUE, m, rnd), LAMBDA s1 :
         IF s1.err # "" THEN s1 ELSE Flush_close(s1))

Close(s) == [s EXCEPT !.IO = FALSE]

\* Cabinet.Stats: the ratio float(c2)/float(c1) is kept as <<c2, c1>>
Stats(s) ==
    IF s.IO
    THEN IF s.c1 = 0 THEN Raise(s, "ZeroDivisionError")
         ELSE [s EXCEPT !.ret = <<s.c1, s.c2, s.c3, s.c4, <<s.c2, s.c1>>>>]
    ELSE [s EXCEPT !.ret = <<0, 0, 0, 0, 0>>]

\* ------------------------------------------------------- the state machine
VARIABLES
    pc,     \* "new", "failed" (the constructor raised), "open", "raised" (a
            \* call raised), "flushed", "closed"
    cab,    \* the Cabinet object with its IOStream, and the files written
    ops,    \* API calls made so far
    call    \* the last call observed and what it returned: [fn, arg, out]; it
            \* is recorded only by the specifications that examine single calls

vars == <<pc, cab, ops, call>>

NoCall == [fn |-> "", arg |-> <<>>, out |-> [err |-> "", ret |-> 0]]

NoCabinet == [Cabinet_init(0, MinLimit, 0) EXCEPT !.limit = 0]

Init == pc = "new" /\ cab = NoCabinet /\ ops = 0 /\ call = NoCall

\* the object after a call: the scratch return value is dropped
After(s) == [s EXCEPT !.ret = 0]
Outcome(s) == IF s.err # "" THEN "raised" ELSE "open"

New ==
    /\ pc = "new"
    /\ \E name \in DestNameLens, lim \in Limits, c \in Compressions :
          /\ cab' = Cabinet_init(name, lim, c)
          /\ pc' = IF cab'.err # "" THEN "failed" ELSE "open"
    /\ UNCHANGED <<ops, call>>

\* Calls follow the module's usage: the first header is added by the caller,
\* the later ones by the writer itself at a split; a call that raised, or
\* Flush, ends the run.
CallAddHeader ==
    /\ pc = "open" /\ ops < MaxOps /\ cab.ch = <<>>
    /\ \E rnd \in SetIDs : cab' = After(AddHeader(cab, rnd))
    /\ pc' = "open"
    /\ ops' = ops + 1
    /\ UNCHANGED call

CallAddFolder ==
    /\ pc = "open" /\ ops < MaxOps
    /\ \E type \in FolderTypes, m \in DeflateModes, rnd \in SetIDs :
          cab' = After(AddFolder(cab, type, m, rnd))
    /\ pc' = Outcome(cab')
    /\ ops' = ops + 1
    /\ UNCHANGED call

CallAdd ==
    /\ pc = "open" /\ ops < MaxOps
    /\ \E n \in NameLens, size \in FileSizes, m \in DeflateModes, rnd \in SetIDs :
          cab' = After(Add(cab, n, [size |-> size, readable |-> TRUE], m, rnd))
    /\ pc' = Outcome(cab')
    /\ ops' = ops + 1
    /\ UNCHANGED call

CallFlush ==
    /\ pc = "open" /\ ops < MaxOps
    /\ \E m \in DeflateModes, rnd \in SetIDs : cab' = After(Flush(cab, m, rnd))
    /\ pc' = IF cab'.err # "" THEN "raised" ELSE "flushed"
    /\ ops' = ops + 1
    /\ UNCHANGED call

\* Close ends the usage (cab.Flush(); cab.Close())
CallClose ==
    /\ pc = "flushed"
    /\ cab' = Close(cab)
    /\ pc' = "closed"
    /\ UNCHANGED <<ops, call>>

Next == New \/ CallAddHeader \/ CallAddFolder \/ CallAdd \/ CallFlush \/ CallClose

Spec == Init /\ [][Next]_vars

\* ------------------------------------------- single calls, one at a time
\* The same object driven call by call, each call recorded with its arguments
\* and with what the caller gets: the value returned or the exception, which
\* the caller catches before the next call. Items may have a name too long
\* for an entry and a source that cannot be read.
MaxCalls == 5               \* API calls per run (constructor excluded)
ItemNameLens == {MaxNameLen, MaxNameLen + 1}
ItemSizes == {1, BlockSize}
Readable == {TRUE, FALSE}

Caught(s) == [s EXCEPT !.ret = 0, !.err = ""]
Returned(s) == [err |-> s.err, ret |-> s.ret]
Nothing == [err |-> "", ret |-> 0]
Raised(s) == [err |-> s.err, ret |-> 0]
\* an exception that escaped midway, after the call had changed the archive:
\* nothing in the program catches it, the archive is not used further
Broken(s0, s) == s.err # "" /\ Caught(s) # Caught(s0)

DoNew ==
    /\ pc = "new"
    /\ \E name \in DestNameLens, lim \in Limits, c \in Compressions :
          /\ cab' = Cabinet_init(name, lim, c)
          /\ pc' = IF cab'.err # "" THEN "failed" ELSE "open"
          /\ call' = [fn |-> "Cabinet", arg |-> <<name, lim, c>>, out |-> Returned(cab')]
    /\ UNCHANGED ops

DoAddHeader ==
    /\ pc = "open" /\ ops < MaxCalls /\ cab.ch = <<>>
    /\ \E rnd \in SetIDs :
          /\ cab' = Caught(AddHeader(cab, rnd))
          /\ call' = [fn |-> "AddHeader", arg |-> <<>>, out |-> Nothing]
    /\ UNCHANGED pc
    /\ ops' = ops + 1

DoAddFolder ==
    /\ pc = "open" /\ ops < MaxCalls
    /\ \E type \in FolderTypes, m \in DeflateModes, rnd \in SetIDs :
          LET s == AddFolder(cab, type, m, rnd)
          IN /\ cab' = Caught(s)
             /\ call' = [fn |-> "AddFolder", arg |-> <<type>>, out |-> Raised(s)]
             /\ pc' = IF Broken(cab, s) THEN "failed" ELSE pc
    /\ ops' = ops + 1

DoAdd ==
    /\ pc \in {"open", "closed"} /\ ops < MaxCalls
    /\ \E n \in ItemNameLens, size \in ItemSizes, r \in Readable,
          m \in DeflateModes, rnd \in SetIDs :
          LET s == Add(cab, n, [size |-> size, readable |-> r], m, rnd)
          IN /\ cab' = Caught(s)
             /\ call' = [fn |-> "Add", arg |-> <<n, size, r>>, out |-> Raised(s)]
             /\ pc' = IF Broken(cab, s) THEN "failed" ELSE pc
    /\ ops' = ops + 1

DoFlush ==
    /\ pc = "open" /\ ops < MaxCalls
    /\ \E m \in DeflateModes, rnd \in SetIDs :
          LET s == Flush(cab, m, rnd)
          IN /\ cab' = Caught(s)
             /\ call' = [fn |-> "Flush", arg |-> <<>>, out |-> Raised(s)]
             /\ pc' = IF Broken(cab, s) THEN "failed"
                      ELSE IF s.err # "" THEN "open" ELSE "flushed"
    /\ ops' = ops + 1

DoClose ==
    /\ pc \in {"open", "flushed"} /\ ops < MaxCalls
    /\ cab' = Close(cab)
    /\ call' = [fn |-> "Close", arg |-> <<>>, out |-> Nothing]
    /\ pc' = "closed"
    /\ ops' = ops + 1

DoStats ==
    /\ pc \in {"open", "flushed", "closed"} /\ ops < MaxCalls
    /\ LET s == Stats(cab)
       IN /\ cab' = Caught(s)
          /\ call' = [fn |-> "Stats", arg |-> <<>>, out |-> Returned(s)]
    /\ UNCHANGED pc
    /\ ops' = ops + 1

NextCalls == DoNew \/ DoAddHeader \/ DoAddFolder \/ DoAdd \/ DoFlush \/ DoClose \/ DoStats

SpecCalls == Init /\ [][NextCalls]_vars

\* ===================================================================
\* What was written: the cabinet units on disk, then the unit being built
\* ===================================================================
CurVol == [name |-> cab.Index, header |-> CurHeader(cab), data |-> cab.fout,
           bytes |-> _cabsize(cab)]
AllVols ==
    IF cab.ch = <<>> THEN <<>>
    ELSE IF cab.disk # <<>> /\ Last(cab.disk).name = cab.Index THEN cab.disk
    ELSE Append(cab.disk, CurVol)

RecsOf(v, j) == SelectSeq(v.data, LAMBDA r : r.fold = j)

\* record r holds data of source file f: the block it carries (whole, or the
\* head or tail of a split) contains bytes of f
HasBytes(r, f) == \E i \in 1..Len(r.data.src) : r.data.src[i].f = f
InVol(v, f) == \E i \in 1..Len(v.data) : HasBytes(v.data[i], f)

\* the file entries written in unit v, in order
RECURSIVE FlatFiles(_, _)
FlatFiles(Fo, i) == IF i = 0 THEN <<>> ELSE FlatFiles(Fo, i - 1) \o Fo[i].Files
Entries(v) == FlatFiles(v.header.Folders, Len(v.header.Folders))
Listed(v, f) == \E i \in 1..Len(Entries(v)) : Entries(v)[i].id = f
Entry(v, f) == LET E == Entries(v)
               IN E[CHOOSE i \in 1..Len(E) : E[i].id = f].iFolder

\* ===================================================================
\* Claims
\* ===================================================================

\* C1: every cabinet unit written is at most limit bytes on disk, and at
\* every split the head length limit - volume_size - 8 is >= 0.
C1_VolumeWithinLimit ==
    /\ \A i \in 1..Len(cab.disk) : cab.disk[i].bytes <= cab.limit
    /\ \A i \in 1..Len(cab.splits) : cab.splits[i].cbData >= 0

\* C2: in every unit written, each folder's cCFData equals the number of
\* data records written into that unit for that folder.
C2_RecordCount ==
    \A i \in 1..Len(cab.disk) :
        \A j \in 1..Len(cab.disk[i].header.Folders) :
            cab.disk[i].header.Folders[j].cCFData = Len(RecsOf(cab.disk[i], j))

\* C3: a block that does not fit is written as exactly two records: the head,
\* last record of the unit that was current, with cbUncomp = 0, and the tail,
\* first record of the next unit, with cbUncomp = ulen; head payload followed
\* by tail payload is the compressed block.
SplitInTwo(sp) ==
    LET V == AllVols
        k == sp.vol
    IN /\ Len(V) > k
       /\ V[k].data # <<>> /\ V[k + 1].data # <<>>
       /\ LET h == Last(V[k].data)
              tl == Head(V[k + 1].data)
          IN /\ h.cbUncomp = 0 /\ tl.cbUncomp = sp.ulen
             /\ h.data.src = sp.src /\ tl.data.src = sp.src
             /\ h.data.by = tl.data.by
             /\ h.data.lo = 0 /\ h.data.hi = tl.data.lo /\ tl.data.hi = sp.clen
             /\ h.cbData = h.data.hi - h.data.lo /\ h.cbData > 0
             /\ tl.cbData = tl.data.hi - tl.data.lo /\ tl.cbData > 0
             /\ h.cbData + tl.cbData = sp.clen
C3_SplitInTwoRecords ==
    cab.err = "" =>
        \A i \in 1..Len(cab.splits) : cab.splits[i].ulen > 0 => SplitInTwo(cab.splits[i])

\* C5: in every unit written, final or not, cbCabinet equals the number of
\* bytes written to the unit's file.
C5_CbCabinetIsSize ==
    \A i \in 1..Len(cab.disk) : cab.disk[i].header.cbCabinet = cab.disk[i].bytes

\* C4: a file with data in unit k and in unit k+1 has folder index 0xFFFE or
\* 0xFFFF in unit k and 0xFFFD or 0xFFFF in unit k+1, and 0xFFFF exactly when
\* it also has data in the unit before, respectively after.
SpansUnits(k, f) == InVol(AllVols[k], f) /\ InVol(AllVols[k + 1], f)
C4Sentinels(k, f) ==
    /\ Listed(cab.disk[k], f) /\ Listed(cab.disk[k + 1], f)
    /\ Entry(cab.disk[k], f) \in {CONTINUED_TO_NEXT, CONTINUED_PREV_AND_NEXT}
    /\ Entry(cab.disk[k + 1], f) \in {CONTINUED_FROM_PREV, CONTINUED_PREV_AND_NEXT}
C4Exactly(k, f) ==
    /\ Entry(cab.disk[k], f) = CONTINUED_PREV_AND_NEXT
          <=> (k > 1 /\ InVol(AllVols[k - 1], f))
    /\ Entry(cab.disk[k + 1], f) = CONTINUED_PREV_AND_NEXT
          <=> (k + 2 <= Len(AllVols) /\ InVol(AllVols[k + 2], f))
C4_ContinuationSentinels ==
    cab.err = "" =>
        \A k \in 1..(Len(cab.disk) - 1) : \A f \in 1..cab.uid :
            SpansUnits(k, f) => C4Sentinels(k, f) /\ C4Exactly(k, f)
\* ---- logical folder streams
\* Folder j of unit k starts a stream unless it is the first folder of a later
\* unit, which continues the last folder of the unit before.
RECURSIVE StreamOf(_, _, _)
StreamOf(V, k, j) ==
    IF j = 1 /\ k > 1 THEN StreamOf(V, k - 1, Len(V[k - 1].header.Folders)) ELSE <<k, j>>

\* appending a segment to a byte string, adjacent ranges of a file merged
Glue(q, g) ==
    IF q # <<>> /\ Last(q).f = g.f /\ Last(q).a + Last(q).n = g.a
    THEN SetLast(q, [Last(q) EXCEPT !.n = Last(q).n + g.n])
    ELSE Append(q, g)
RECURSIVE GlueAll(_, _, _)
GlueAll(q, b, i) == IF i > Len(b) THEN q ELSE GlueAll(Glue(q, b[i]), b, i + 1)

\* the uncompressed blocks of stream S in unit and record order; a split block
\* is taken once, at its first piece
RECURSIVE StreamBlocks(_, _, _, _, _)
StreamBlocks(V, S, k, i, q) ==
    IF k > Len(V) THEN q
    ELSE IF i > Len(V[k].data) THEN StreamBlocks(V, S, k + 1, 1, q)
    ELSE LET r == V[k].data[i]
         IN StreamBlocks(V, S, k, i + 1,
                IF r.data.lo = 0 /\ StreamOf(V, k, r.fold) = S
                THEN GlueAll(q, r.data.src, 1) ELSE q)

\* the file entries of stream S, each file once, in the order they are listed
RECURSIVE StreamFiles(_, _, _, _, _)
StreamFiles(V, S, k, j, q) ==
    IF k > Len(V) THEN q
    ELSE IF j > Len(V[k].header.Folders) THEN StreamFiles(V, S, k + 1, 1, q)
    ELSE LET Fs  == V[k].header.Folders[j].Files
             new == SelectSeq(Fs, LAMBDA x : \A i \in 1..Len(q) : q[i].id # x.id)
         IN StreamFiles(V, S, k, j + 1, IF StreamOf(V, k, j) = S THEN q \o new ELSE q)

FileBytes(x) == x.cbFile
WholeFile(x) == [f |-> x.id, a |-> 0, n |-> x.cbFile]
StreamStarts(V) ==
    UNION {{<<k, j>> : j \in {i \in 1..Len(V[k].header.Folders) :
                                 StreamOf(V, k, i) = <<k, i>>}} : k \in 1..Len(V)}
IsCurrent(V, S) ==
    V # <<>> /\ StreamOf(V, Len(V), Len(V[Len(V)].header.Folders)) = S
StreamContent(V, S) ==
    LET q == StreamBlocks(V, S, 1, 1, <<>>)
    IN IF IsCurrent(V, S) THEN GlueAll(q, cab.buf, 1) ELSE q
StreamInOrder(V, S) ==
    LET E == StreamFiles(V, S, 1, 1, <<>>)
    IN /\ StreamContent(V, S) = [i \in 1..Len(E) |-> WholeFile(E[i])]
       /\ \A i \in 1..Len(E) :
             /\ E[i].uoffFolderStart = SumSeq(FileBytes, SubSeq(E, 1, i - 1))
             /\ i > 1 => E[i - 1].id < E[i].id

\* C6: in every folder stream the blocks emitted (and the block being filled),
\* in record and unit order, are the contents of the stream's files in the
\* order Add was called, and every file's uoffFolderStart is the sum of the
\* sizes of the files added to the stream before it.
C6_StreamOrder ==
    cab.err = "" => \A S \in StreamStarts(AllVols) : StreamInOrder(AllVols, S)
C6_Witness ==
    /\ pc = "flushed"
    /\ \E S \in StreamStarts(AllVols) :
          /\ Len(StreamFiles(AllVols, S, 1, 1, <<>>)) >= 2
          /\ \E k \in 2..Len(AllVols) : \E i \in 1..Len(AllVols[k].data) :
                /\ StreamOf(AllVols, k, AllVols[k].data[i].fold) = S
                /\ S[1] < k
                /\ Len(AllVols[k].data[i].data.src) >= 2
\* C7: after Flush the header of the last unit has has-next (0x2) clear, the
\* header of every earlier unit has it set, and has-prev (0x1) is set in
\* exactly the units after the first.
C7_NextPrevFlags ==
    pc \in {"flushed", "closed"} =>
        /\ cab.disk # <<>>
        /\ \A i \in 1..Len(cab.disk) :
              /\ HasBit(cab.disk[i].header.flags, 2) <=> i < Len(cab.disk)
              /\ HasBit(cab.disk[i].header.flags, 1) <=> i > 1
\* Flush's own last block, with data on both sides of the split, did not fit
\* and opened one more unit
C7_Witness ==
    /\ pc = "flushed" /\ cab._flushing /\ Len(cab.disk) >= 3
    /\ Last(cab.splits).vol = Len(cab.disk) - 1
    /\ Last(cab.splits).ulen > 0 /\ Last(cab.splits).cbData > 0

\* C8: all units carry the setID of the first, and the k-th unit written
\* carries iCabinet k-1.
C8_SetIdAndIndex ==
    \A i \in 1..Len(AllVols) :
        /\ AllVols[i].header.setID = AllVols[1].header.setID
        /\ AllVols[i].header.iCabinet = i - 1
C8_Witness ==
    /\ Len(cab.disk) >= 4
    /\ \E i \in 1..Len(cab.disk) : cab.disk[i].header.setID = 2

\* C9: the records of a folder are made by the method given to AddFolder,
\* whatever compression the archive was constructed with, and no call fails
\* for want of a compressor.
MethodOf(type) ==
    IF type = 0 THEN {"none"}
    ELSE IF type < 10 THEN {"MSZIP", "MSZIP-stored"}
    ELSE {"LZX"}
C9_FolderCompression ==
    /\ cab.err # "AttributeError"
    /\ \A k \in 1..Len(AllVols) : \A i \in 1..Len(AllVols[k].data) :
          LET r == AllVols[k].data[i]
          IN r.data.by \in MethodOf(AllVols[k].header.Folders[r.fold].typeCompress)

\* C10: the constructor fails exactly for limit < 50000, and after a failed
\* construction nothing is written.
C10_LimitCheck ==
    pc # "new" =>
        /\ (cab.limit < MinLimit) <=> (pc = "failed")
        /\ pc = "failed" => cab.disk = <<>> /\ cab.fout = <<>> /\ ops = 0
C10_Witness == pc = "failed" /\ cab.limit = MinLimit - 1
\* ---- single calls
HasHeader(s) == s.ch # <<>>
HasFolder(s) == HasHeader(s) /\ CurHeader(s).Folders # <<>>
\* the headers with their folders, the file queue, the block buffer and the
\* counters are those of before the call
SameArchive(s, s2) ==
    /\ s2.ch = s.ch /\ s2._files = s._files /\ s2.buf = s.buf
    /\ s2.c1 = s.c1 /\ s2.c2 = s.c2 /\ s2.c3 = s.c3 /\ s2.c4 = s.c4
    /\ s2.disk = s.disk /\ s2.fout = s.fout

\* C11: Add without a header, without a folder or on a closed Cabinet, and
\* AddFolder without a header, raise to their caller and leave the headers,
\* folders, file queue, block buffer and counters as they were.
C11_StateErrors ==
    [][/\ (call'.fn = "Add" /\ (~HasFolder(cab) \/ ~cab.IO))
            => call'.out.err # "" /\ SameArchive(cab, cab')
       /\ (call'.fn = "AddFolder" /\ ~HasHeader(cab))
            => call'.out.err # "" /\ SameArchive(cab, cab')]_vars
\* Add on a Cabinet closed with a file read and its bytes still buffered
C11_Witness ==
    /\ call.fn = "Add" /\ call.out.err = "CabArcException"
    /\ pc = "closed" /\ HasFolder(cab) /\ cab.buf # <<>> /\ cab.c3 > 0

\* C12: Flush on an archive without a header, without a folder or without
\* any file added raises to its caller and writes no cabinet unit.
C12_FlushOfEmpty ==
    [][(call'.fn = "Flush" /\ (~HasFolder(cab) \/ cab.idict = {}))
          => call'.out.err # "" /\ cab'.disk = cab.disk /\ cab'.c4 = cab.c4]_vars

\* the item id is an entry of the file list of some folder of some unit
InFolders(s, id) ==
    \E h \in 1..Len(s.ch) : \E j \in 1..Len(s.ch[h].Folders) :
       \E i \in 1..Len(s.ch[h].Folders[j].Files) : s.ch[h].Folders[j].Files[i].id = id
InQueue(s, id) == \E i \in 1..Len(s._files) : s._files[i].id = id

\* C13: on an open archive with a folder, Add of an item whose name is longer
\* than 255 characters returns without raising and leaves the file queue, the
\* folders (file lists and Size), the block buffer, the item dictionary and the
\* counters as they were; an item with a name of at most 255 characters is
\* entered in the dictionary and queued (it is then waiting, taken into a
\* folder, or dropped as unreadable).
C13_LongNameSkipped ==
    [][(call'.fn = "Add" /\ HasFolder(cab) /\ cab.IO)
          => IF call'.arg[1] > MaxNameLen
             THEN /\ call'.out.err = ""
                  /\ SameArchive(cab, cab')
                  /\ cab'.idict = cab.idict /\ cab'.uid = cab.uid
             ELSE /\ cab'.uid = cab.uid + 1
                  /\ cab'.idict = cab.idict \cup {cab'.uid}
                  /\ \/ InQueue(cab', cab'.uid)
                     \/ InFolders(cab', cab'.uid)
                     \/ ~call'.arg[3]]_vars
\* a long name offered after a file was taken and its bytes are buffered
C13_Witness ==
    /\ call.fn = "Add" /\ call.arg[1] > MaxNameLen /\ call.out.err = ""
    /\ HasFolder(cab) /\ cab.IO /\ cab.buf # <<>> /\ cab.idict # {}

\* every folder of s is a folder of s2 with the same file list and Size
FoldersKept(s, s2) ==
    /\ Len(s2.ch) = Len(s.ch)
    /\ \A h \in 1..Len(s.ch) :
          /\ Len(s2.ch[h].Folders) >= Len(s.ch[h].Folders)
          /\ \A j \in 1..Len(s.ch[h].Folders) :
                /\ s2.ch[h].Folders[j].Files = s.ch[h].Folders[j].Files
                /\ s2.ch[h].Folders[j].Size = s.ch[h].Folders[j].Size

\* C14: Add of a source file that cannot be opened returns without raising;
\* the item is taken off the queue, is in the file list of no folder,
\* contributes no bytes, and leaves every folder's Size and the files-added
\* counter as they were.  A readable file added afterwards is taken into the
\* current folder, counted, and its bytes are read.
C14_UnreadableSkipped ==
    [][(call'.fn = "Add" /\ HasFolder(cab) /\ cab.IO /\ call'.arg[1] <= MaxNameLen)
          => IF ~call'.arg[3]
             THEN /\ call'.out.err = ""
                  /\ cab'._files = <<>>
                  /\ ~InFolders(cab', cab'.uid)
                  /\ FoldersKept(cab, cab')
                  /\ cab'.c1 = cab.c1 /\ cab'.c2 = cab.c2 /\ cab'.c3 = cab.c3
                  /\ cab'.buf = cab.buf /\ cab'.fout = cab.fout /\ cab'.disk = cab.disk
             ELSE call'.out.err = ""
                  => /\ InFolders(cab', cab'.uid)
                     /\ cab'.c3 = cab.c3 + 1
                     /\ cab'.c1 = cab.c1 + call'.arg[2]]_vars
\* an unreadable file offered after a file was taken and its bytes buffered
C14_Witness ==
    /\ call.fn = "Add" /\ ~call.arg[3] /\ call.arg[1] <= MaxNameLen
    /\ call.out.err = "" /\ HasFolder(cab) /\ cab.IO
    /\ cab.c3 > 0 /\ cab.buf # <<>> /\ cab.uid > cab.c3

\* C15: on an archive that is not closed, Stats returns the five figures
\* (bytes read, bytes written, files, units, ratio) without raising, whatever
\* the state, an archive that has read no bytes included.
C15_StatsReturns ==
    [][(call'.fn = "Stats" /\ cab.IO)
          => /\ call'.out.err = ""
             /\ call'.out.ret = <<cab.c1, cab.c2, cab.c3, cab.c4, <<cab.c2, cab.c1>>>>]_vars

\* ===================================================================
\* MSZIP.compress alone: one block, the length of zlib's output drawn freely
\* ===================================================================
MaxSlack == 8
BlockLens == (1..MaxSlack) \cup ((BlockSize - MaxSlack)..BlockSize)
RawLens == (1..MaxSlack) \cup ((MSZIPMax - 2 - MaxSlack)..(MSZIPMax - 2 + MaxSlack))
OneBlock(n) == <<[f |-> 1, a |-> 0, n |-> n]>>

InitMSZIP ==
    /\ pc = "block" /\ cab = NoCabinet /\ ops = 0
    /\ \E n \in BlockLens, d \in RawLens :
          call = [fn |-> "", arg |-> <<n, d>>, out |-> Nothing]

DoCompress ==
    /\ pc = "block"
    /\ pc' = "packed"
    /\ call' = [fn |-> "MSZIP.compress", arg |-> call.arg,
                out |-> [err |-> "", ret |-> MSZIP_pack(OneBlock(call.arg[1]), call.arg[2])]]
    /\ UNCHANGED <<cab, ops>>

SpecMSZIP == InitMSZIP /\ [][DoCompress]_vars

PayLen(d) == d.hi - d.lo

\* C16: whatever the length of the raw DEFLATE output, for a block of 1 to
\* 32768 bytes MSZIP.compress returns at most 32780 bytes, and a stored-block
\* payload is exactly 32775 bytes: the 7-byte prefix, whose length field says
\* 0x8000, followed by exactly 32768 raw bytes.
C16_MSZIPPayload ==
    call.fn = "MSZIP.compress"
       => /\ PayLen(call.out.ret) <= MSZIPMax
          /\ call.out.ret.by = "MSZIP-stored"
                => /\ PayLen(call.out.ret) = StoredPrefix + BlockSize
                   /\ BufLen(call.out.ret.src) = BlockSize

\* ===================================================================
\* Disk2CabName alone: a path is a sequence of characters
\* ===================================================================
MaxPathLen == 3
Chars == {"/", "\\", ":", "a"}
StripChars == {"\\", "a"}
Platforms == {"posix", "nt", "nt-unc"}

RECURSIVE Strings(_, _)
Strings(A, n) ==
    IF n = 0 THEN {<<>>}
    ELSE Strings(A, n - 1) \cup {Append(w, c) : w \in Strings(A, n - 1), c \in A}
Paths == Strings(Chars, MaxPathLen) \ {<<>>}
Strips == {<<>>, <<"*">>} \cup (Strings(StripChars, MaxPathLen - 1) \ {<<>>})

StartsWith(w, old) == Len(w) >= Len(old) /\ SubSeq(w, 1, Len(old)) = old
\* str.replace(old, new), old not empty: leftmost occurrences, not overlapping
RECURSIVE replace(_, _, _)
replace(w, old, new) ==
    IF w = <<>> THEN <<>>
    ELSE IF StartsWith(w, old)
    THEN new \o replace(SubSeq(w, Len(old) + 1, Len(w)), old, new)
    ELSE <<Head(w)>> \o replace(Tail(w), old, new)
\* str.find(c, from) and str.rfind(c) as 1-based positions, 0 when absent
find(w, c, from) ==
    IF \E i \in from..Len(w) : w[i] = c
    THEN CHOOSE i \in from..Len(w) : w[i] = c /\ \A j \in from..(i - 1) : w[j] # c
    ELSE 0
rfind(w, c) ==
    IF \E i \in 1..Len(w) : w[i] = c
    THEN CHOOSE i \in 1..Len(w) : w[i] = c /\ \A j \in (i + 1)..Len(w) : w[j] # c
    ELSE 0

\* os.path.splitdrive(p)[1]: posixpath keeps p; ntpath drops a drive letter
\* and, from 2.7.8 on, a \\machine\mountpoint prefix
splitdrive_tail(p, platform) ==
    IF platform = "posix" THEN p
    ELSE IF platform = "nt"
    THEN IF Len(p) >= 2 /\ p[2] = ":" THEN SubSeq(p, 3, Len(p)) ELSE p
    ELSE IF Len(p) <= 1 THEN p
    ELSE Bind(replace(p, <<"/">>, <<"\\">>), LAMBDA normp :
         IF StartsWith(normp, <<"\\", "\\">>) /\ ~(Len(normp) >= 3 /\ normp[3] = "\\")
         THEN Bind(find(normp, "\\", 3), LAMBDA index :
              IF index = 0 THEN p
              ELSE Bind(find(normp, "\\", index + 1), LAMBDA index2 :
                   IF index2 = index + 1 THEN p
                   ELSE IF index2 = 0 THEN <<>>
                   ELSE SubSeq(p, index2, Len(p))))
         ELSE IF normp[2] = ":" THEN SubSeq(p, 3, Len(p)) ELSE p)

Disk2CabName(name, strip, platform) ==
    Bind(replace(splitdrive_tail(name, platform), <<"/">>, <<"\\">>), LAMBDA n1 :
    IF n1 = <<>> THEN [err |-> "IndexError", ret |-> <<>>]
    ELSE Bind(IF n1[1] = "\\" THEN Tail(n1) ELSE n1, LAMBDA n2 :
         [err |-> "",
          ret |-> IF strip = <<"*">> THEN SubSeq(n2, 1 + rfind(n2, "\\"), Len(n2))
                  ELSE IF strip # <<>> THEN replace(n2, strip, <<>>)
                  ELSE n2]))

InitNames ==
    /\ pc = "path" /\ cab = NoCabinet /\ ops = 0
    /\ \E name \in Paths, strip \in Strips, platform \in Platforms :
          call = [fn |-> "", arg |-> <<name, strip, platform>>, out |-> Nothing]

DoName ==
    /\ pc = "path"
    /\ pc' = "named"
    /\ call' = [fn |-> "Disk2CabName", arg |-> call.arg,
                out |-> Disk2CabName(call.arg[1], call.arg[2], call.arg[3])]
    /\ UNCHANGED <<cab, ops>>

SpecNames == InitNames /\ [][DoName]_vars

Has(w, c) == \E i \in 1..Len(w) : w[i] = c

\* C17: for every non-empty path and every strip argument (none, '*' or a
\* literal substring) the name Disk2CabName returns holds no forward slash
\* and does not begin with a backslash; with strip = '*' it holds no backslash.
C17_CabName ==
    (call.fn = "Disk2CabName" /\ call.out.err = "")
       => /\ ~Has(call.out.ret, "/")
          /\ ~StartsWith(call.out.ret, <<"\\">>)
          /\ call.arg[2] = <<"*">> => ~Has(call.out.ret, "\\")

\* the records of stream S that begin a block, in unit and record order
RECURSIVE StreamRecs(_, _, _, _, _)
StreamRecs(V, S, k, i, q) ==
    IF k > Len(V) THEN q
    ELSE IF i > Len(V[k].data) THEN StreamRecs(V, S, k + 1, 1, q)
    ELSE StreamRecs(V, S, k, i + 1,
             IF V[k].data[i].data.lo = 0 /\ StreamOf(V, k, V[k].data[i].fold) = S
             THEN Append(q, V[k].data[i]) ELSE q)
Compressed(r) == r.data.by # "none"

\* C18: the compressor is reset exactly at every folder close and nowhere
\* else: in every compressed folder stream the first block is compressed with
\* no history, whatever the size of the folder before it, and the i-th block
\* with the history of the i-1 blocks before it, across unit splits too.
C18_CompressorReset ==
    cab.err = "" =>
        \A S \in StreamStarts(AllVols) :
            LET R == StreamRecs(AllVols, S, 1, 1, <<>>)
            IN \A i \in 1..Len(R) : Compressed(R[i]) => R[i].data.hist = i - 1

\* the ids of the files listed in folder o
Ids(o) == [i \in 1..Len(o.Files) |-> o.Files[i].id]
ListedIn(o, id) == \E i \in 1..Len(o.Files) : o.Files[i].id = id
\* the first folder of a later unit: it continues the folder split before it
Continuation(V, k) == V[k].header.Folders[1]
\* every file listed in the continuation folder of unit k is carried over
\* from unit k-1, and its records hold bytes of those files only
CarriedOnly(V, k) ==
    /\ \A i \in 1..Len(Continuation(V, k).Files) :
          Listed(V[k - 1], Continuation(V, k).Files[i].id)
    /\ \A i \in 1..Len(V[k].data) :
          V[k].data[i].fold = 1 =>
             \A g \in 1..Len(V[k].data[i].data.src) :
                ListedIn(Continuation(V, k), V[k].data[i].data.src[g].f)
\* an Add that takes a file while the close of the folder is pending: a folder
\* of the same type (as CFFOLDER.Write puts it) is appended to the unit, the
\* file is listed there, and the folders the unit had keep their file lists
TakenInNewFolder(s, s2) ==
    LET h   == Len(s.ch)
        old == s.ch[h].Folders
        new == s2.ch[h].Folders
    IN /\ Len(new) = Len(old) + 1
       /\ CFFOLDER_Write(Last(new)).typeCompress = CFFOLDER_Write(Last(old)).typeCompress
       /\ ListedIn(Last(new), s2.uid)
       /\ \A j \in 1..Len(old) : Ids(new[j]) = Ids(old[j])
       /\ ~s2._flushing \/ Len(s2.ch) > h

BlockLen(r) == BufLen(r.data.src)

\* C20: every record written carries a block of 1 to 32768 uncompressed bytes
\* (the head and the tail of a split carry the same block), and in every
\* folder stream each block but the last has exactly 32768 bytes, at every
\* point of every sequence of calls.
C20_BlockSizes ==
    [](LET V == AllVols
       IN /\ \A k \in 1..Len(V) : \A i \in 1..Len(V[k].data) :
                /\ 1 <= BlockLen(V[k].data[i]) /\ BlockLen(V[k].data[i]) <= BlockSize
                /\ V[k].data[i].cbUncomp \in {0, BlockLen(V[k].data[i])}
          /\ \A S \in StreamStarts(V) :
                \A i \in 1..(Len(StreamRecs(V, S, 1, 1, <<>>)) - 1) :
                   BlockLen(StreamRecs(V, S, 1, 1, <<>>)[i]) = BlockSize)
\* a stream of several blocks over two units, closed with a short last block
C20_Witness ==
    /\ pc = "flushed" /\ Len(AllVols) >= 2
    /\ \E S \in StreamStarts(AllVols) :
          LET R == StreamRecs(AllVols, S, 1, 1, <<>>)
          IN /\ Len(R) >= 3 /\ BlockLen(Last(R)) < BlockSize
             /\ \E k \in 2..Len(AllVols) : StreamOf(AllVols, k, 1) = S

\* file f has bytes in the block that was split when unit k was closed
InSplit(k, f) ==
    \E i \in 1..Len(cab.splits) :
       /\ cab.splits[i].vol = k
       /\ \E g \in 1..Len(cab.splits[i].src) : cab.splits[i].src[g].f = f
\* file f has bytes in a unit after unit k
InLater(k, f) == \E k2 \in (k + 1)..Len(cab.disk) : InVol(cab.disk[k2], f)
\* file f is marked as continuing in unit k, or listed in the first folder of
\* unit k+1
Carried(k, f) ==
    \/ Entry(cab.disk[k], f) \in {CONTINUED_TO_NEXT, CONTINUED_PREV_AND_NEXT}
    \/ ListedIn(cab.disk[k + 1].header.Folders[1], f)

\* C21: at a split a file gets 0xFFFE or 0xFFFF in the earlier unit and is
\* listed in the first folder of the next unit only if one of its bytes lies
\* in the split block or after it; a file that ended before the split block
\* keeps its folder index and is not listed in the next unit.
C21_CarriedOnlyIfSplit ==
    []((pc = "flushed" /\ cab.err = "") =>
          \A k \in 1..(Len(cab.disk) - 1) : \A f \in 1..cab.uid :
             (Listed(cab.disk[k], f) /\ Carried(k, f)) => (InSplit(k, f) \/ InLater(k, f)))

\* ===================================================================
\* Scenario S1: one large file stored in a single unit
\*   cab = Cabinet(name, 'w'); cab.AddHeader(); cab.AddFolder(0);
\*   cab.Add(file); cab.Flush()
\* ===================================================================
MaxDelta == 32
\* Cabinet's default limit is 2**32; the model takes the largest limit its
\* integers hold: the archive of S1 stays far below either, _cabisfull and
\* the split test of _write are false throughout
DefaultLimit == 2147483647
S1Size == 1000000
S1Sizes == (S1Size - MaxDelta)..(S1Size + MaxDelta)

S1New ==
    /\ pc = "new"
    /\ \E name \in DestNameLens : cab' = Cabinet_init(name, DefaultLimit, 0)
    /\ pc' = "open"
    /\ UNCHANGED <<ops, call>>

S1AddHeader ==
    /\ pc = "open" /\ ops = 0
    /\ \E rnd \in SetIDs : cab' = After(AddHeader(cab, rnd))
    /\ ops' = 1
    /\ UNCHANGED <<pc, call>>

S1AddFolder ==
    /\ pc = "open" /\ ops = 1
    /\ \E m \in DeflateModes, rnd \in SetIDs : cab' = After(AddFolder(cab, 0, m, rnd))
    /\ ops' = 2
    /\ UNCHANGED <<pc, call>>

S1Add ==
    /\ pc = "open" /\ ops = 2
    /\ \E n \in NameLens, size \in S1Sizes, m \in DeflateModes, rnd \in SetIDs :
          cab' = After(Add(cab, n, [size |-> size, readable |-> TRUE], m, rnd))
    /\ ops' = 3
    /\ UNCHANGED <<pc, call>>

S1Flush ==
    /\ pc = "open" /\ ops = 3
    /\ \E m \in DeflateModes, rnd \in SetIDs : cab' = After(Flush(cab, m, rnd))
    /\ pc' = IF cab'.err # "" THEN "raised" ELSE "flushed"
    /\ ops' = 4
    /\ UNCHANGED call

NextS1 == S1New \/ S1AddHeader \/ S1AddFolder \/ S1Add \/ S1Flush

SpecS1 == Init /\ [][NextS1]_vars

\* the run of S1 with the 1,000,000-byte file has ended
S1Ended == pc \in {"flushed", "raised"} /\ cab.c1 = S1Size
\* one unit, one folder of type 0, full blocks and then one of `rest' bytes
S1Outcome(blocks, rest) ==
    /\ pc = "flushed" /\ Len(cab.disk) = 1
    /\ Len(cab.disk[1].header.Folders) = 1
    /\ cab.disk[1].header.Folders[1].typeCompress = 0
    /\ Len(cab.disk[1].data) = blocks
    /\ \A i \in 1..(blocks - 1) : cab.disk[1].data[i].cbUncomp = BlockSize
    /\ cab.disk[1].data[blocks].cbUncomp = rest

\* C22 as stated: S1 gives one unit with one folder of type 0 and 31 records,
\* 30 of 32768 bytes and then one of 17,856 bytes.
C22_S1_AsStated == S1Ended => S1Outcome(31, 17856)
\* C22: S1 gives one unit with one folder of type 0 and 31 records, 30 of
\* 32768 bytes and then one of 1,000,000 - 30 * 32768 = 16,960 bytes.
C22_S1 == S1Ended => S1Outcome(31, 16960)
C22_Witness ==
    /\ pc = "flushed" /\ cab.c1 = S1Size /\ Len(cab.disk) = 1
    /\ Len(cab.disk[1].data) = 31 /\ cab.disk[1].data[31].cbUncomp = 16960

\* ===================================================================
\* The same usage with a unit limit and a file whose last block just fits
\* ===================================================================
\* 52 bytes of header and folder, 272 of file entry, a record of 8 + 32768
\* and a record of 8 + 16892 make a unit of exactly 50000 bytes
FitSize == 49660
FitSizes == (FitSize - MaxDelta)..(FitSize + MaxDelta)

FitNew ==
    /\ pc = "new"
    /\ \E name \in DestNameLens : cab' = Cabinet_init(name, MinLimit, 0)
    /\ pc' = "open"
    /\ UNCHANGED <<ops, call>>

FitAdd ==
    /\ pc = "open" /\ ops = 2
    /\ \E n \in NameLens, size \in FitSizes, m \in DeflateModes, rnd \in SetIDs :
          cab' = After(Add(cab, n, [size |-> size, readable |-> TRUE], m, rnd))
    /\ ops' = 3
    /\ UNCHANGED <<pc, call>>

NextFit == FitNew \/ S1AddHeader \/ S1AddFolder \/ FitAdd \/ S1Flush

SpecFit == Init /\ [][NextFit]_vars

\* the uncompressed_len fields of the records written, summed
RecUncomp(r) == r.cbUncomp
VolUncomp(v) == SumSeq(RecUncomp, v.data)
TotalUncomp == SumSeq(VolUncomp, cab.disk)

\* C23: after Flush has returned, the cbUncomp fields of all the records of
\* all the units add up to the number of bytes read from the source files.
C23_BytesAccounted ==
    [](pc = "flushed" => TotalUncomp = cab.c1)

\* ---------------------------------------- IOStream.flush, step by step
\* The calls that run IOStream.flush, taken one statement of its loop at a
\* time: a pass of _read, the _write of the loop, the _write after the loop.
\* The running call keeps its arguments, the n of the next pass of _read, the
\* number of times _read called itself and the bytes-read counter as it was
\* when the iteration began. The program is one thread: a call that has begun
\* takes its next step, so it ends if its steps cannot go on for ever.
MaxLoopCalls == 4           \* API calls per run (constructor excluded)
LoopSizes == {1, BlockSize, 49372, 100000}

InLoop == pc \in {"read", "write", "last"}

Enter(fn, end, type) ==
    [fn |-> fn,
     arg |-> [end |-> end, type |-> type, n |-> BlockSize, again |-> 0, c0 |-> cab'.c1],
     out |-> Nothing]

LoopNew ==
    /\ pc = "new"
    /\ \E name \in DestNameLens, c \in Compressions :
          cab' = After(AddHeader(Cabinet_init(name, MinLimit, c), 1))
    /\ pc' = "open"
    /\ UNCHANGED <<ops, call>>

\* AddFolder runs IO.flush(1) when the header has a folder already
LoopAddFolder ==
    /\ pc = "open" /\ ops < MaxLoopCalls
    /\ \E type \in FolderTypes :
          IF CurHeader(cab).Folders = <<>>
          THEN /\ cab' = After(AddFolder(cab, type, "shrink", 1))
               /\ pc' = Outcome(cab')
               /\ call' = [fn |-> "AddFolder", arg |-> <<>>, out |-> Nothing]
          ELSE /\ cab' = cab
               /\ pc' = "read"
               /\ call' = Enter("AddFolder", TRUE, type)
    /\ ops' = ops + 1

\* _additem runs IO.flush() after IO.push(cf)
LoopAdd ==
    /\ pc = "open" /\ ops < MaxLoopCalls
    /\ \E n \in NameLens, size \in LoopSizes, r \in Readable :
          IF CurHeader(cab).Folders = <<>>
          THEN /\ cab' = After(Add(cab, n, [size |-> size, readable |-> r], "shrink", 1))
               /\ pc' = Outcome(cab')
               /\ call' = [fn |-> "Add", arg |-> <<>>, out |-> Nothing]
          ELSE /\ cab' = _additem_push(cab, n, [size |-> size, readable |-> r])
               /\ pc' = "read"
               /\ call' = Enter("Add", FALSE, 0)
    /\ ops' = ops + 1

\* Flush runs IO.flush(1)
LoopFlush ==
    /\ pc = "open" /\ ops < MaxLoopCalls
    /\ IF CurHeader(cab).Folders = <<>>
          THEN /\ cab' = After(Flush(cab, "shrink", 1))
               /\ pc' = "raised"
               /\ call' = [fn |-> "Flush", arg |-> <<>>, out |-> Nothing]
          ELSE /\ cab' = cab
               /\ pc' = "read"
               /\ call' = Enter("Flush", TRUE, 0)
    /\ ops' = ops + 1

\* while p._read(): one pass of _read, which ends by calling itself, by
\* returning 1 or by returning 0
LoopRead ==
    /\ pc = "read"
    /\ LET r == _read_pass(cab, call.arg.n) IN
          /\ cab' = After(r.st)
          /\ pc' = IF r.again THEN "read" ELSE IF r.st.ret # 0 THEN "write" ELSE "last"
          /\ call' = IF r.again
                     THEN [call EXCEPT !.arg.n = r.n, !.arg.again = call.arg.again + 1]
                     ELSE call
    /\ UNCHANGED ops

\* p._write(end) in the loop
LoopWrite ==
    /\ pc = "write"
    /\ \E m \in DeflateModes, rnd \in SetIDs :
          cab' = After(_write(cab, call.arg.end, m, rnd))
    /\ pc' = IF cab'.err # "" THEN "raised" ELSE "read"
    /\ call' = [call EXCEPT !.arg.n = BlockSize, !.arg.c0 = cab'.c1]
    /\ UNCHANGED ops

\* p._write(p._flushing | end) after the loop, and the rest of the call
LoopLast ==
    /\ pc = "last"
    /\ \E m \in DeflateModes, rnd \in SetIDs :
          LET s1 == _write(cab, cab._flushing \/ call.arg.end, m, rnd) IN
          cab' = After(IF s1.err # "" \/ call.fn = "Add" THEN s1
                       ELSE IF call.fn = "AddFolder" THEN _addfolder(s1, call.arg.type)
                       ELSE Flush_close(s1))
    /\ pc' = IF cab'.err # "" THEN "raised"
             ELSE IF call.fn = "Flush" THEN "flushed" ELSE "open"
    /\ UNCHANGED <<ops, call>>

NextLoop ==
    LoopNew \/ LoopAddFolder \/ LoopAdd \/ LoopFlush \/ LoopRead \/ LoopWrite \/ LoopLast

SpecLoop == Init /\ [][NextLoop]_vars

\* The bytes the call may still read: the rest of the open source file and
\* the files of the queue
PathSize(f) == IF f.path.readable THEN f.path.size ELSE 0
Unread(s) ==
    (IF s.fin.open THEN s.fin.size - s.fin.pos ELSE 0) + SumSeq(PathSize, s._files)

\* What is left of the running call, in steps: two for each byte to read,
\* and the _write that follows a pass of _read
StepsLeft ==
    IF pc = "write" THEN 2 * Unread(cab) + 3
    ELSE IF pc = "read" THEN 2 * Unread(cab) + 2
    ELSE IF pc = "last" THEN 1 ELSE 0

\* C24: with files of finite size every Add, AddFolder and Flush call comes
\* to its end, as each step of the call leaves fewer steps to take, their
\* number being finite and never negative; an iteration of the loop that
\* writes a block has read at least one new byte; _read calls itself at most
\* once in a call; and when Flush has returned no file is queued, no source
\* file is open and the block buffer is empty.
C24_FlushTerminates ==
    /\ [][InLoop => StepsLeft' < StepsLeft]_vars
    /\ [](StepsLeft >= 0)
    /\ [](pc = "write" => cab.c1 > call.arg.c0)
    /\ [](InLoop => call.arg.again <= 1)
    /\ [](pc = "flushed" => cab._files = <<>> /\ ~cab.fin.open /\ cab.buf = <<>>)

\* the loop of a call is over after _read called itself, with new bytes read
\* in the last iteration and a unit of the archive written already
C24_Witness ==
    /\ pc = "last" /\ call.arg.again = 1 /\ cab.c1 > call.arg.c0 /\ cab.disk # <<>>


\* ------------------------------------------------- the set id of a header
\* CFHEADER.__init__ draws setID with random.randint(1,65536), which returns
\* any integer from 1 to 65536, both included. The runs below build a small
\* archive with the first header's draw at the ends of that range.
RandIntLow == 1
RandIntHigh == 65536
RandInts == {RandIntLow, RandIntHigh - 1, RandIntHigh}

IdAddHeader ==
    /\ pc = "open" /\ ops = 0
    /\ \E rnd \in RandInts : cab' = After(AddHeader(cab, rnd))
    /\ ops' = 1
    /\ UNCHANGED <<pc, call>>

NextId == FitNew \/ IdAddHeader \/ S1AddFolder \/ FitAdd \/ S1Flush

SpecId == Init /\ [][NextId]_vars

\* C25: the set id of every header of the archive lies in 0..65535, and no
\* call fails in struct.pack on a header whose set id is out of that range.
C25_SetIDFits ==
    \A i \in 1..Len(cab.ch) :
       /\ cab.ch[i].setID \in 0..USHRT
       /\ ~(cab.err = "struct.error" /\ ~CFHEADER_packs(cab.ch[i]))

====
